---- MODULE Spec2Model ----
(***************************************************************************)
(* Model of the CFO Pluggy API relay (src/main.py): token acquisition,     *)
(* cursor-paginated fetches of accounts and transactions, the snapshot     *)
(* aggregation loops and the two request handlers.  One inbound request is *)
(* followed at a time; the upstream provider is the environment and picks  *)
(* every response.                                                         *)
(***************************************************************************)
EXTENDS Integers, Sequences, FiniteSets, TLC

\* ------------------------------------------------------------------------
\* Bounds of the model
\* ------------------------------------------------------------------------

\* most pages the upstream serves with a non-empty nextCursor in one fetch
MaxPages == 3

\* most records the upstream serves in one fetch, all pages together
MaxRecs == 3

\* longest account list / transaction list of the aggregation specification
MaxAccounts == 2

MaxTxs == 3

\* ------------------------------------------------------------------------
\* JSON values as Python sees them
\* ------------------------------------------------------------------------

\* a key that is not in the object: dict.get gives None
JAbsent == [t |-> "absent", n |-> 0, s |-> ""]

JNull == [t |-> "null", n |-> 0, s |-> ""]

JNum(k) == [t |-> "num", n |-> k, s |-> ""]

JStr(x) == [t |-> "str", n |-> 0, s |-> x]

\* a nested balance object with its "current" and "available" members
JDict(c, a) == [t |-> "dict", current |-> c, available |-> a]

EmptyDict == JDict(JAbsent, JAbsent)

\* Python truth value: None, 0, "" and {} are false
Truthy(v) ==
    CASE v.t = "absent" -> FALSE
      [] v.t = "null" -> FALSE
      [] v.t = "num" -> v.n # 0
      [] v.t = "str" -> v.s # ""
      [] v.t = "dict" -> v.current.t # "absent" \/ v.available.t # "absent"

\* Python's "a or b"
PyOr(a, b) == IF Truthy(a) THEN a ELSE b

\* the strings float() can parse, with their values
NumericStrings == {"7", "-2"}

ParseFloat(s) == IF s = "7" THEN 7 ELSE -2

FloatOk(x) == [ok |-> TRUE, val |-> x, err |-> ""]

FloatErr(e) == [ok |-> FALSE, val |-> 0, err |-> e]

\* Python's float(v): a number converts, a numeric string is parsed, any
\* other string raises ValueError, any other type raises TypeError
Float(v) ==
    CASE v.t = "num" -> FloatOk(v.n)
      [] v.t = "str" /\ v.s \in NumericStrings -> FloatOk(ParseFloat(v.s))
      [] v.t = "str" /\ v.s \notin NumericStrings -> FloatErr("ValueError")
      [] OTHER -> FloatErr("TypeError")

RECURSIVE SeqsUpTo(_, _)
\* all sequences over S of length at most n
SeqsUpTo(S, n) ==
    IF n = 0 THEN {<<>>}
    ELSE LET shorter == SeqsUpTo(S, n - 1)
         IN shorter \cup {Append(q, e) : q \in {r \in shorter : Len(r) = n - 1}, e \in S}

\* ------------------------------------------------------------------------
\* Program constants
\* ------------------------------------------------------------------------

AccountsPageSize == 100

TransactionsPageSize == 500

PageSize(res) == IF res = "accounts" THEN AccountsPageSize ELSE TransactionsPageSize

\* faulty variant: it takes only statuses above 400 for failures
IsErrorStatusStrict(status) == status > 400

\* resp.status_code >= 400
IsErrorStatus(status) == status >= 400

\* ------------------------------------------------------------------------
\* State
\* ------------------------------------------------------------------------

VARIABLES
    PLUGGY_CLIENT_ID,      \* module-level configuration, read once
    PLUGGY_CLIENT_SECRET,
    pc,                    \* position of the handler of the request in flight
    endpoint,              \* "snapshot", "connect-token" or "none"
    user_id,
    item_id,
    headers,               \* bearer token of the running fetch ("" = none)
    params,                \* query parameters of the running fetch
    cursor,                \* local cursor of the running fetch
    all_accounts,          \* accumulator of fetch_accounts_by_item
    all_txs,               \* accumulator of fetch_transactions_by_item
    accounts,              \* get_snapshot locals
    transactions,
    saldo_total,
    total_entradas,
    total_saidas,
    idx,                   \* position of the running for loop
    response,              \* what the inbound request was answered with
    log,                   \* history: the outbound calls of this request
    pages,                 \* history: the page exchanges of the fetch that
                           \* is running or has just ended
    served_accounts,       \* history: every account the upstream served
    served_txs             \* history: every transaction the upstream served

vars == <<PLUGGY_CLIENT_ID, PLUGGY_CLIENT_SECRET, pc, endpoint, user_id,
          item_id, headers, params, cursor, all_accounts, all_txs, accounts,
          transactions, saldo_total, total_entradas, total_saidas, idx,
          response, log, pages, served_accounts, served_txs>>

config == <<PLUGGY_CLIENT_ID, PLUGGY_CLIENT_SECRET>>

request == <<endpoint, user_id, item_id>>

fetchLocals == <<headers, params, cursor, all_accounts, all_txs>>

served == <<served_accounts, served_txs>>

snapshotLocals == <<accounts, transactions, saldo_total, total_entradas,
                    total_saidas, idx>>

\* ------------------------------------------------------------------------
\* Inputs
\* ------------------------------------------------------------------------

\* os.getenv gives None for an unset variable
EnvValues == {JNull, JStr(""), JStr("id")}

UserIds == {"u1"}

ItemIds == {"i1"}

StatusCodes == {200, 400, 503}

\* the upstream issues a new token at every successful authentication
TokenName(n) == IF n = 1 THEN "t1" ELSE "t2"

\* data.get("nextCursor"): None for a missing or null member
NextCursors == {JNull, JStr(""), JStr("c1"), JStr("c2")}

NoParams == [itemId |-> "", pageSize |-> 0, cursor |-> JAbsent]

NoResponse == [status |-> 0]

\* faulty variant: it answers an error with a success status
Http200Error(detail) == [status |-> 200, detail |-> detail]

\* raise HTTPException(status_code=500, detail=str(e))
Http500(detail) == [status |-> 500, detail |-> detail]

Http200(body) == [status |-> 200, body |-> body]

\* what the upstream answers to one outbound call; timeout = the call raised
\* instead of answering
Answer(timeout, status, token, connectToken, results, nextCursor) ==
    [timeout |-> timeout, status |-> status, token |-> token,
     connectToken |-> connectToken, results |-> results,
     nextCursor |-> nextCursor]

TimeoutAnswer == Answer(TRUE, 0, JAbsent, JAbsent, <<>>, JAbsent)

ErrorAnswers ==
    {Answer(FALSE, st, JAbsent, JAbsent, <<>>, JAbsent) :
        st \in {c \in StatusCodes : c >= 400}}

\* answers of POST /auth to the n-th authentication of a request: the body
\* may lack the accessToken or carry an empty one
AuthAnswers(n) ==
    {TimeoutAnswer} \cup ErrorAnswers \cup
    {Answer(FALSE, 200, tk, JAbsent, <<>>, JAbsent) :
        tk \in {JAbsent, JStr(""), JStr(TokenName(n))}}

\* answers of POST /connect_token
ConnectAnswers ==
    {TimeoutAnswer} \cup ErrorAnswers \cup
    {Answer(FALSE, 200, a, c, <<>>, JAbsent) :
        a \in {JAbsent, JStr("ct1")}, c \in {JAbsent, JStr("ct2")}}

\* records of the pagination specification
AccountRecords ==
    {[balance |-> JNum(100)], [balance |-> JDict(JNum(50), JAbsent)],
     [balance |-> JStr("abc")]}

TransactionRecords == {[amount |-> JNum(5)], [amount |-> JNum(-3)]}

Records(res) == IF res = "accounts" THEN AccountRecords ELSE TransactionRecords

\* one entry of the history of outbound calls
Call(name, bearer, a) ==
    [call |-> name, bearer |-> bearer, timeout |-> a.timeout,
     status |-> a.status, token |-> a.token]

\* one entry of the history of page exchanges: the request's parameters and
\* the nextCursor of the answer
Exchange(res, p, a) ==
    [call |-> res, itemId |-> p.itemId, pageSize |-> p.pageSize,
     cursor |-> p.cursor, timeout |-> a.timeout, status |-> a.status,
     nextCursor |-> a.nextCursor]

\* answers of GET /accounts and GET /transactions to the next page request:
\* the upstream serves at most MaxRecs records and at most MaxPages pages
\* that name a further page
PageAnswers(res, sofar) ==
    {TimeoutAnswer} \cup ErrorAnswers \cup
    {Answer(FALSE, 200, JAbsent, JAbsent, rs, nc) :
        rs \in SeqsUpTo(Records(res), MaxRecs - Len(sofar)),
        nc \in IF Len(pages) < MaxPages
               THEN NextCursors
               ELSE {c \in NextCursors : ~Truthy(c)}}

\* ------------------------------------------------------------------------
\* Pieces of the code
\* ------------------------------------------------------------------------

\* faulty variant: it looks at the client identifier only
HasCredentialsIdOnly == Truthy(PLUGGY_CLIENT_ID)

\* not (not PLUGGY_CLIENT_ID or not PLUGGY_CLIENT_SECRET)
HasCredentials == Truthy(PLUGGY_CLIENT_ID) /\ Truthy(PLUGGY_CLIENT_SECRET)

\* faulty variant: it sends a bearer token it kept from before
CachedBearer(token) == "t1"

\* "Authorization": f"Bearer {token}"
Bearer(token) == token.s

\* faulty variant: it never sends the cursor
RequestParamsNoCursor(p, c) == p

\* if cursor: params["cursor"] = cursor
RequestParams(p, c) == IF Truthy(c) THEN [p EXCEPT !.cursor = c] ELSE p

\* faulty variant: it keeps the last page only
ExtendKeepLast(all, results) == results

\* all_accounts.extend(data.get("results", []))
Extend(all, results) == all \o results

\* faulty variant: it takes any answer of 200 for a token
TokenMissingNever(token) == FALSE

\* if not token: raise
TokenMissing(token) == ~Truthy(token)

\* if not cursor: break
LoopEnds(c) == ~Truthy(c)

ConfigError == [msg |-> "PLUGGY_CLIENT_ID ou PLUGGY_CLIENT_SECRET nao configurados", status |-> 0]

TransportError == [msg |-> "requests exception", status |-> 0]

UpstreamError(msg, status) == [msg |-> msg, status |-> status]

FloatError(e) == [msg |-> e, status |-> 0]

TokenPc(res) == IF res = "accounts" THEN "acc_token" ELSE "tx_token"

PagePc(res) == IF res = "accounts" THEN "acc_page" ELSE "tx_page"

ListError(res) == IF res = "accounts" THEN "Erro ao listar contas" ELSE "Erro ao listar transacoes"

AllOf(res) == IF res = "accounts" THEN all_accounts ELSE all_txs

\* the locals of a function that is not running
NoFetchLocals ==
    /\ headers' = ""
    /\ params' = NoParams
    /\ cursor' = JNull
    /\ all_accounts' = <<>>
    /\ all_txs' = <<>>

NoSnapshotLocals ==
    /\ accounts' = <<>>
    /\ transactions' = <<>>
    /\ saldo_total' = 0
    /\ total_entradas' = 0
    /\ total_saidas' = 0
    /\ idx' = 0

\* an exception reaches the handler's except clause: HTTP 500 with str(e)
Raise(detail) ==
    /\ pc' = "done"
    /\ response' = Http500(detail)
    /\ NoFetchLocals
    /\ NoSnapshotLocals
    /\ UNCHANGED <<config, request>>

\* ------------------------------------------------------------------------
\* Initial state
\* ------------------------------------------------------------------------

Init ==
    /\ PLUGGY_CLIENT_ID \in EnvValues
    /\ PLUGGY_CLIENT_SECRET \in EnvValues
    /\ pc = "idle"
    /\ endpoint = "none"
    /\ user_id = ""
    /\ item_id = ""
    /\ headers = ""
    /\ params = NoParams
    /\ cursor = JNull
    /\ all_accounts = <<>>
    /\ all_txs = <<>>
    /\ accounts = <<>>
    /\ transactions = <<>>
    /\ saldo_total = 0
    /\ total_entradas = 0
    /\ total_saidas = 0
    /\ idx = 0
    /\ response = NoResponse
    /\ log = <<>>
    /\ pages = <<>>
    /\ served_accounts = <<>>
    /\ served_txs = <<>>

\* ------------------------------------------------------------------------
\* Operations
\* ------------------------------------------------------------------------

\* an inbound request arrives; the handler starts with fresh locals
Arrive(ep, u, i, start) ==
    /\ pc \in {"idle", "done"}
    /\ endpoint' = ep
    /\ user_id' = u
    /\ item_id' = i
    /\ pc' = start
    /\ response' = NoResponse
    /\ log' = <<>>
    /\ pages' = <<>>
    /\ served_accounts' = <<>>
    /\ served_txs' = <<>>
    /\ NoFetchLocals
    /\ NoSnapshotLocals
    /\ UNCHANGED config

\* GET /users/{user_id}/snapshot?item_id=
SnapshotRequest == \E u \in UserIds, i \in ItemIds : Arrive("snapshot", u, i, "acc_token")

\* POST /pluggy/connect-token
ConnectTokenRequest == \E u \in UserIds : Arrive("connect-token", u, "", "connect")

\* get_pluggy_headers at the head of a fetch, and the set-up of the fetch
GetPluggyHeaders(res, answers) ==
    /\ pc = TokenPc(res)
    /\ IF ~HasCredentials
       THEN /\ Raise(ConfigError)
            /\ UNCHANGED <<log, pages, served>>
       ELSE \E a \in answers :
            /\ log' = Append(log, Call("auth", "", a))
            /\ pages' = <<>>
            /\ UNCHANGED served
            /\ IF a.timeout
               THEN Raise(TransportError)
               ELSE IF IsErrorStatus(a.status)
               THEN Raise(UpstreamError("Erro ao autenticar na Pluggy", a.status))
               ELSE IF TokenMissing(a.token)
               THEN Raise(UpstreamError("Resposta de auth da Pluggy nao trouxe accessToken", 0))
               ELSE /\ headers' = Bearer(a.token)
                    /\ params' = [itemId |-> item_id, pageSize |-> PageSize(res),
                                  cursor |-> JAbsent]
                    /\ cursor' = JNull
                    /\ all_accounts' = <<>>
                    /\ all_txs' = <<>>
                    /\ pc' = PagePc(res)
                    /\ UNCHANGED <<config, request, snapshotLocals, response>>

\* the fetch returns its list to get_snapshot, which starts the loop over it
ReturnList(res, all) ==
    /\ NoFetchLocals
    /\ idx' = 1
    /\ IF res = "accounts"
       THEN /\ accounts' = all
            /\ saldo_total' = 0
            /\ pc' = IF all = <<>> THEN "tx_token" ELSE "saldo"
            /\ UNCHANGED <<transactions, total_entradas, total_saidas>>
       ELSE /\ transactions' = all
            /\ total_entradas' = 0
            /\ total_saidas' = 0
            /\ pc' = IF all = <<>> THEN "respond" ELSE "fluxo"
            /\ UNCHANGED <<accounts, saldo_total>>
    /\ UNCHANGED <<config, request, response>>

\* one iteration of the while loop of a fetch: one page request
FetchPage(res, answers) ==
    /\ pc = PagePc(res)
    /\ LET p == RequestParams(params, cursor)
       IN \E a \in answers :
            /\ log' = Append(log, Call(res, headers, a))
            /\ pages' = Append(pages, Exchange(res, p, a))
            /\ served_accounts' = IF res = "accounts" /\ ~a.timeout
                                  THEN served_accounts \o a.results
                                  ELSE served_accounts
            /\ served_txs' = IF res = "transactions" /\ ~a.timeout
                             THEN served_txs \o a.results
                             ELSE served_txs
            /\ IF a.timeout
               THEN Raise(TransportError)
               ELSE IF IsErrorStatus(a.status)
               THEN Raise(UpstreamError(ListError(res), a.status))
               ELSE LET all == Extend(AllOf(res), a.results)
                    IN IF LoopEnds(a.nextCursor)
                       THEN ReturnList(res, all)
                       ELSE /\ params' = p
                            /\ cursor' = a.nextCursor
                            /\ all_accounts' = IF res = "accounts" THEN all ELSE all_accounts
                            /\ all_txs' = IF res = "accounts" THEN all_txs ELSE all
                            /\ UNCHANGED <<config, request, headers, snapshotLocals,
                                           pc, response>>

\* create_connect_token and the body of api_create_connect_token
CreateConnectToken ==
    /\ pc = "connect"
    /\ IF ~HasCredentials
       THEN /\ Raise(ConfigError)
            /\ UNCHANGED <<log, pages, served>>
       ELSE \E a \in ConnectAnswers :
            /\ log' = Append(log, Call("connect_token", "", a))
            /\ UNCHANGED <<pages, served>>
            /\ IF a.timeout
               THEN Raise(TransportError)
               ELSE IF IsErrorStatus(a.status)
               THEN Raise(UpstreamError("Erro ao criar connect token", a.status))
               ELSE /\ response' = Http200([connectToken |-> PyOr(a.token, a.connectToken),
                                            raw |-> [accessToken |-> a.token,
                                                     connectToken |-> a.connectToken]])
                    /\ pc' = "done"
                    /\ UNCHANGED <<config, request, fetchLocals, snapshotLocals>>

\* the value of an account that goes into float()
BalanceValor(acc) ==
    LET balance == PyOr(acc.balance, EmptyDict)
    IN IF balance.t = "dict"
       THEN PyOr(PyOr(balance.current, balance.available), JNum(0))
       ELSE PyOr(balance, JNum(0))

\* one iteration of "for acc in accounts"
BalanceStep ==
    /\ pc = "saldo"
    /\ LET f == Float(BalanceValor(accounts[idx]))
       IN IF ~f.ok
          THEN /\ Raise(FloatError(f.err))
               /\ pages' = <<>>
               /\ UNCHANGED <<log, served>>
          ELSE /\ saldo_total' = saldo_total + f.val
               /\ idx' = idx + 1
               /\ pc' = IF idx + 1 > Len(accounts) THEN "tx_token" ELSE "saldo"
               /\ UNCHANGED <<config, request, fetchLocals, accounts, transactions,
                              total_entradas, total_saidas, response, log, served>>
               /\ pages' = <<>>

\* the value of a transaction that goes into float()
TxAmount(tx) == PyOr(tx.amount, JNum(0))

\* faulty variant: it counts every non-zero amount as an inflow
NewEntradasAnySign(total, amount) == IF amount # 0 THEN total + amount ELSE total

\* if amount > 0: total_entradas += amount
NewEntradas(total, amount) == IF amount > 0 THEN total + amount ELSE total

\* elif amount < 0: total_saidas += amount
NewSaidas(total, amount) ==
    IF amount > 0 THEN total ELSE IF amount < 0 THEN total + amount ELSE total

\* one iteration of "for tx in transactions"
TxStep ==
    /\ pc = "fluxo"
    /\ LET f == Float(TxAmount(transactions[idx]))
       IN IF ~f.ok
          THEN /\ Raise(FloatError(f.err))
               /\ pages' = <<>>
               /\ UNCHANGED <<log, served>>
          ELSE /\ total_entradas' = NewEntradas(total_entradas, f.val)
               /\ total_saidas' = NewSaidas(total_saidas, f.val)
               /\ idx' = idx + 1
               /\ pc' = IF idx + 1 > Len(transactions) THEN "respond" ELSE "fluxo"
               /\ UNCHANGED <<config, request, fetchLocals, accounts, transactions,
                              saldo_total, response, log, served>>
               /\ pages' = <<>>

\* "saldo_movimento": total_entradas + total_saidas
SaldoMovimento(entradas, saidas) == entradas + saidas

\* the snapshot dictionary
Snapshot ==
    [user_id |-> user_id,
     item_id |-> item_id,
     saldo_total_contas |-> saldo_total,
     total_entradas |-> total_entradas,
     total_saidas |-> total_saidas,
     saldo_movimento |-> SaldoMovimento(total_entradas, total_saidas),
     qtd_contas |-> Len(accounts),
     qtd_transacoes |-> Len(transactions),
     accounts |-> accounts,
     transactions |-> transactions]

\* get_snapshot builds the snapshot and returns it
BuildSnapshot ==
    /\ pc = "respond"
    /\ response' = Http200(Snapshot)
    /\ pc' = "done"
    /\ NoFetchLocals
    /\ NoSnapshotLocals
    /\ pages' = <<>>
    /\ UNCHANGED <<config, request, log, served>>

AccountsHeaders == GetPluggyHeaders("accounts", AuthAnswers(1))

FetchAccountsPage == FetchPage("accounts", PageAnswers("accounts", all_accounts))

TransactionsHeaders == GetPluggyHeaders("transactions", AuthAnswers(2))

FetchTransactionsPage == FetchPage("transactions", PageAnswers("transactions", all_txs))

Next ==
    \/ SnapshotRequest
    \/ ConnectTokenRequest
    \/ CreateConnectToken
    \/ AccountsHeaders
    \/ FetchAccountsPage
    \/ BalanceStep
    \/ TransactionsHeaders
    \/ FetchTransactionsPage
    \/ TxStep
    \/ BuildSnapshot

Spec == Init /\ [][Next]_vars

TypeOK == pc \in {"idle", "connect", "acc_token", "acc_page", "saldo", "tx_token",
                  "tx_page", "fluxo", "respond", "done"}

\* ------------------------------------------------------------------------
\* The aggregation on its own: get_snapshot from the return of the accounts
\* fetch on, over lists of records of every shape, with an upstream that
\* answers every call and serves the transactions in one page
\* ------------------------------------------------------------------------

Balances ==
    {JAbsent, JNull, JNum(100), JStr("7"), JStr("abc"),
     JDict(JNum(50), JNum(7)), JDict(JNum(0), JNum(7)), EmptyDict}

Amounts == {JAbsent, JNull, JNum(0), JNum(5), JNum(-3), JStr("abc")}

AnyAccounts == SeqsUpTo({[balance |-> b] : b \in Balances}, MaxAccounts)

AnyTransactions == SeqsUpTo({[amount |-> a] : a \in Amounts}, MaxTxs)

TokenAnswer(n) == Answer(FALSE, 200, JStr(TokenName(n)), JAbsent, <<>>, JAbsent)

OnePageAnswer(rs) == Answer(FALSE, 200, JAbsent, JAbsent, rs, JNull)

FirstPageParams(res) == [itemId |-> "i1", pageSize |-> PageSize(res), cursor |-> JAbsent]

\* fetch_accounts_by_item has just returned a list it got in one page
AggInit ==
    /\ PLUGGY_CLIENT_ID = JStr("id")
    /\ PLUGGY_CLIENT_SECRET = JStr("id")
    /\ endpoint = "snapshot"
    /\ user_id = "u1"
    /\ item_id = "i1"
    /\ headers = ""
    /\ params = NoParams
    /\ cursor = JNull
    /\ all_accounts = <<>>
    /\ all_txs = <<>>
    /\ accounts \in AnyAccounts
    /\ pc = IF accounts = <<>> THEN "tx_token" ELSE "saldo"
    /\ transactions = <<>>
    /\ saldo_total = 0
    /\ total_entradas = 0
    /\ total_saidas = 0
    /\ idx = 1
    /\ response = NoResponse
    /\ log = <<Call("auth", "", TokenAnswer(1)),
               Call("accounts", TokenName(1), OnePageAnswer(accounts))>>
    /\ pages = <<Exchange("accounts", FirstPageParams("accounts"), OnePageAnswer(accounts))>>
    /\ served_accounts = accounts
    /\ served_txs = <<>>

AggTransactionsHeaders == GetPluggyHeaders("transactions", {TokenAnswer(2)})

AggFetchTransactionsPage ==
    FetchPage("transactions", {OnePageAnswer(rs) : rs \in AnyTransactions})

AggNext ==
    \/ BalanceStep
    \/ AggTransactionsHeaders
    \/ AggFetchTransactionsPage
    \/ TxStep
    \/ BuildSnapshot

AggSpec == AggInit /\ [][AggNext]_vars

\* ------------------------------------------------------------------------
\* Properties
\* ------------------------------------------------------------------------

Last(q) == q[Len(q)]

\* an outbound call that did not succeed: it raised, was answered with a
\* status of 400 or more, or was an authentication without a token
Failed(c) ==
    \/ c.timeout
    \/ c.status >= 400
    \/ c.call = "auth" /\ ~Truthy(c.token)

PageCall(c) == c.call \in {"accounts", "transactions"}

CredentialsMissing ==
    \/ PLUGGY_CLIENT_ID \in {JNull, JStr("")}
    \/ PLUGGY_CLIENT_SECRET \in {JNull, JStr("")}

\* the accounts fetch has returned its list to get_snapshot
AccountsReturned == pc \in {"saldo", "tx_token", "tx_page", "fluxo", "respond"}

\* the transactions fetch has returned its list to get_snapshot
TransactionsReturned == pc \in {"fluxo", "respond"}

SnapshotAnswered == endpoint = "snapshot" /\ response.status = 200

\* C1: a fetch whose pages all succeed returns the concatenation of the
\* results of all its pages in the order of the requests, and it ends with
\* the first page that has no or an empty nextCursor
C1_Concatenation ==
    /\ pc = "acc_page" => all_accounts = served_accounts
    /\ pc = "tx_page" => all_txs = served_txs
    /\ AccountsReturned => accounts = served_accounts
    /\ TransactionsReturned => transactions = served_txs
    /\ SnapshotAnswered => /\ response.body.accounts = served_accounts
                           /\ response.body.transactions = served_txs
    /\ pc \in {"acc_page", "tx_page"} /\ pages # <<>> => Truthy(Last(pages).nextCursor)

\* pages [A, B] then [C]: a list of three records, not all alike, returned
\* after more than one page
C1_Witness ==
    /\ pc = "saldo"
    /\ Len(pages) >= 2
    /\ Len(accounts) = 3
    /\ accounts[1] # accounts[2]

\* C2: a status of 400 or more on any page ends the fetch in an error: the
\* request is answered with the error and no list is returned
C2_FailedPageFailsFetch ==
    \A k \in DOMAIN log :
        PageCall(log[k]) /\ ~log[k].timeout /\ log[k].status >= 400 =>
            /\ pc = "done"
            /\ response = Http500(UpstreamError(ListError(log[k].call), log[k].status))
            /\ accounts = <<>> /\ transactions = <<>>
            /\ all_accounts = <<>> /\ all_txs = <<>>

\* a later page of a fetch fails after records were accumulated
C2_Witness ==
    /\ pc = "done"
    /\ Len(pages) >= 2
    /\ Last(pages).status = 503
    /\ Last(pages).call = "transactions"
    /\ Len(served_txs) >= 2

\* C3: without both credentials every token acquisition and every
\* create_connect_token fails with the configuration error and no outbound
\* call is made
C3_NoCredentialsNoCalls ==
    CredentialsMissing =>
        /\ log = <<>>
        /\ pc \in {"idle", "acc_token", "connect", "done"}
        /\ pc = "done" => response = Http500(ConfigError)

\* a snapshot request was answered while the secret is not set
C3_Witness ==
    /\ PLUGGY_CLIENT_ID = JStr("id")
    /\ PLUGGY_CLIENT_SECRET = JNull
    /\ endpoint = "snapshot"
    /\ pc = "done"
    /\ response.status = 500

AmountOf(tx) ==
    IF tx.amount.t = "num" THEN tx.amount.n
    ELSE IF tx.amount.t = "str" /\ tx.amount.s \in NumericStrings
    THEN ParseFloat(tx.amount.s)
    ELSE 0

RECURSIVE SumPositive(_)
SumPositive(txs) ==
    IF txs = <<>> THEN 0
    ELSE (IF AmountOf(Head(txs)) > 0 THEN AmountOf(Head(txs)) ELSE 0) + SumPositive(Tail(txs))

RECURSIVE SumNegative(_)
SumNegative(txs) ==
    IF txs = <<>> THEN 0
    ELSE (IF AmountOf(Head(txs)) < 0 THEN AmountOf(Head(txs)) ELSE 0) + SumNegative(Tail(txs))

\* C5: after each transaction processed the inflow total is the sum of the
\* amounts above zero and is not negative, the outflow total is the sum of
\* the amounts below zero and is not positive, amounts of zero and missing
\* amounts count for nothing, and the net movement of the snapshot is the
\* sum of the two totals
C5_FlowTotals ==
    /\ TransactionsReturned =>
        LET seen == SubSeq(transactions, 1, idx - 1)
        IN /\ total_entradas = SumPositive(seen)
           /\ total_saidas = SumNegative(seen)
           /\ total_entradas >= 0
           /\ total_saidas <= 0
    /\ SnapshotAnswered =>
        /\ response.body.total_entradas = SumPositive(response.body.transactions)
        /\ response.body.total_saidas = SumNegative(response.body.transactions)
        /\ response.body.total_entradas >= 0
        /\ response.body.total_saidas <= 0
        /\ response.body.saldo_movimento =
               response.body.total_entradas + response.body.total_saidas

\* a snapshot over an inflow, an outflow and a missing amount
C5_Witness ==
    /\ SnapshotAnswered
    /\ response.body.total_entradas > 0
    /\ response.body.total_saidas < 0
    /\ \E k \in DOMAIN response.body.transactions :
           response.body.transactions[k].amount = JAbsent

IsNumber(v) == v.t = "num" \/ (v.t = "str" /\ v.s \in NumericStrings)

NumberOf(v) == IF v.t = "num" THEN v.n ELSE ParseFloat(v.s)

\* the balance of an account as the specification coerces it: a scalar gives
\* its value, a nested object its "current" and else its "available", a
\* missing or non-numeric balance gives zero
CoercedBalance(acc) ==
    LET b == acc.balance
    IN IF b.t = "dict"
       THEN IF IsNumber(b.current) /\ NumberOf(b.current) # 0
            THEN NumberOf(b.current)
            ELSE IF IsNumber(b.available) THEN NumberOf(b.available) ELSE 0
       ELSE IF IsNumber(b) THEN NumberOf(b) ELSE 0

RECURSIVE SumBalances(_)
SumBalances(accs) ==
    IF accs = <<>> THEN 0 ELSE CoercedBalance(Head(accs)) + SumBalances(Tail(accs))

\* C6: for every account list the snapshot's total balance is the sum of the
\* coerced balances, a missing or non-numeric balance counting for zero
C6_TotalBalance ==
    /\ pc \in {"tx_token", "tx_page", "fluxo", "respond"} =>
           saldo_total = SumBalances(accounts)
    /\ SnapshotAnswered =>
           response.body.saldo_total_contas = SumBalances(response.body.accounts)
    /\ ~(pc = "done" /\ Last(log).call = "accounts" /\ ~Failed(Last(log)))

\* C7: the aggregation has no error outcome: no record makes it fail
C7_NoAggregationError ==
    response.status = 500 => response.detail.msg \notin {"ValueError", "TypeError"}

\* C8: nothing is retried: an outbound call that failed is the last outbound
\* call of its request, and the request has ended
C8_NoCallAfterFailure ==
    \A k \in DOMAIN log :
        Failed(log[k]) => k = Len(log) /\ pc = "done"

\* an accounts page fails after an earlier page: no page is asked again and
\* no transactions call follows
C8_Witness ==
    /\ Len(log) >= 3
    /\ Last(log).call = "accounts"
    /\ Failed(Last(log))
    /\ pc = "done"

\* C9: the calls of a snapshot request come in the order authentication,
\* accounts pages, authentication, transactions pages; a page is requested
\* only with the token of the authentication that opened its fetch
C9_CallOrder ==
    endpoint = "snapshot" =>
        \A k \in DOMAIN log :
            /\ k = 1 => log[k].call = "auth"
            /\ log[k].call \in {"auth", "accounts", "transactions"}
            /\ PageCall(log[k]) =>
                /\ k > 1
                /\ log[k - 1].call \in {"auth", log[k].call}
                /\ ~Failed(log[k - 1])
                /\ log[k - 1].call = "auth" => log[k].bearer = log[k - 1].token.s
                /\ log[k - 1].call # "auth" => log[k].bearer = log[k - 1].bearer
            /\ log[k].call = "auth" /\ k > 1 =>
                /\ log[k - 1].call = "accounts"
                /\ ~Failed(log[k - 1])
                /\ pc \notin {"acc_token", "acc_page", "saldo"}
                /\ \A j \in 1..(k - 1) : log[j].call # "transactions"
                /\ \A j \in (k + 1)..Len(log) : log[j].call = "transactions"

\* both fetches ran over more than one page, each with its own token
C9_Witness ==
    /\ Len(log) >= 6
    /\ Last(log).call = "transactions"
    /\ Last(log).bearer = "t2"
    /\ log[2].bearer = "t1"
    /\ log[3].call = "accounts"

\* C10: the first page request of a fetch carries no cursor, every later one
\* carries the nextCursor of the answer just before it with the same itemId
\* and page size, and the fetch goes on exactly as long as the last answer
\* carried a non-empty nextCursor
C10_CursorProtocol ==
    /\ \A k \in DOMAIN pages :
        /\ pages[k].itemId = item_id
        /\ pages[k].pageSize = (IF pages[k].call = "accounts" THEN 100 ELSE 500)
        /\ k = 1 => pages[k].cursor = JAbsent
        /\ k > 1 => /\ pages[k].cursor = pages[k - 1].nextCursor
                    /\ pages[k - 1].nextCursor.t = "str"
                    /\ pages[k - 1].nextCursor.s # ""
                    /\ ~pages[k - 1].timeout
                    /\ pages[k - 1].status < 400
                    /\ pages[k - 1].call = pages[k].call
    /\ pages # <<>> =>
        LET last == Last(pages)
            goesOn == /\ ~last.timeout
                      /\ last.status < 400
                      /\ last.nextCursor.t = "str"
                      /\ last.nextCursor.s # ""
        IN goesOn <=> pc = PagePc(last.call)

\* the upstream repeats a cursor and the fetch asks for one more page
C10_Witness ==
    /\ pc = "tx_page"
    /\ Len(pages) = 3
    /\ pages[2].cursor = JStr("c1")
    /\ pages[3].cursor = JStr("c1")
    /\ pages[3].nextCursor = JStr("c1")

====
